---- MODULE Spec2Model ----
(***************************************************************************)
(* Model of crackpy.fracture_analysis.analysis.FractureAnalysis: the       *)
(* orchestration of the two model fits, the sweep of line integrals over   *)
(* nested paths and the aggregation of the per-path results, together with *)
(* the result records of crackpy.structure_elements.results.               *)
(*                                                                         *)
(* Numbers.  A float is modelled as an exact rational <<num, den>> in      *)
(* lowest terms with den > 0, or as NaN == <<0, 0>>.  The inputs are small *)
(* integers, on which the float sums of numpy are exact.                   *)
(*                                                                         *)
(* Scope.  The module-level statements of results.py (the class bodies and *)
(* the default argument of _create_williams_model) run when the package is *)
(* imported; the model starts from a constructed FractureAnalysis and      *)
(* follows the statements its methods execute, the calls into results.py   *)
(* included.                                                               *)
(***************************************************************************)
EXTENDS Integers, Sequences, FiniteSets, TLC

VARIABLES
    \* ---- FractureAnalysis: configuration and control
    optimization_properties,  \* None or the normalized OptimizationProperties
    integral_properties,      \* None or the normalized IntegralProperties
    fields,                   \* names of the attributes that exist on the instance
    pc,                       \* "idle" | "cjp" | "williams" | "integrals" | "loop" | "done" | "raised"
    progress,                 \* the progress argument of run(): "off" | "None" | "sink"
    \* ---- results of the fits
    cjp_coeffs, res_cjp, williams_coeffs, williams_fit_a_n, williams_fit_b_n, sifs_fit,
    \* ---- per-path series and the aggregated result
    results, williams_int_a_n, williams_int_b_n, williams_int, sifs_int,
    int_sizes, integration_points, tick_sizes, num_of_path_nodes,
    \* ---- locals of _run_line_integrals
    current_size_left, current_size_right, current_size_top, current_size_bottom,
    n_done,                   \* iterations of the path loop completed
    \* ---- what the collaborators observe
    li_calls,                 \* every calculate_line_integral call: arguments, and ok if it returned
    opt_calls,                \* every optimizer call: the method, and ok if it returned
    sink,                     \* notifications written to the progress sink, in order
    agg_calls,                \* number of _aggregate_integral_results calls
    raised_by,                \* the step whose exception left this run(), or ""
    fits_at_sweep,            \* the results of the fits as they were when the sweep began
    events,                   \* evaluations, notifications and aggregations of this run(), in order
    \* ---- across the run() calls of one orchestrator
    arrays,                   \* the Williams series are numpy arrays (an aggregation converted them)
    normalizations,           \* the ensure_defaults calls made so far, in order
    rows_at_run,              \* len(self.results) when this run() began
    sifs_at_run,              \* self.sifs_int as it was when this run() began
    \* ---- the aggregation functions on their own
    agg_pc,       \* "off" | "loaded" | "done"
    agg_data,     \* the 2-D array handed to the aggregation functions (rows = paths)
    agg_m,        \* the threshold m handed to mean_wo_outliers
    agg_out,      \* the three statistics computed from agg_data
    \* ---- several orchestrators and the objects they refer to
    objects,      \* the configuration objects: kind and the ensure_defaults calls received
    instances,    \* the FractureAnalysis instances constructed, in order
    accumulators  \* the lists created by _init_integral_results, by identity

cfgvars == <<optimization_properties, integral_properties, fields>>

fitvars == <<cjp_coeffs, res_cjp, williams_coeffs, williams_fit_a_n, williams_fit_b_n, sifs_fit>>

seriesvars == <<results, williams_int_a_n, williams_int_b_n, williams_int,
                int_sizes, integration_points, tick_sizes, num_of_path_nodes>>

loopvars == <<current_size_left, current_size_right, current_size_top, current_size_bottom, n_done>>

aggvars == <<agg_pc, agg_data, agg_m, agg_out>>

\* what one run() is observed to do; run() starts each of them afresh
logvars == <<li_calls, opt_calls, sink, agg_calls, raised_by, events>>

lifevars == <<arrays, normalizations, rows_at_run, sifs_at_run>>

mainvars == <<cfgvars, pc, progress, fitvars, seriesvars, sifs_int, loopvars,
              logvars, fits_at_sweep, lifevars>>

heapvars == <<objects, instances, accumulators>>

vars == <<mainvars, aggvars, heapvars>>

-----------------------------------------------------------------------------
(* Bounds of the model *)

MaxPaths == 3      \* largest number_of_paths / number of rows of a series
MaxVal == 3        \* per-path quantities are drawn from 0..MaxVal and NaN

-----------------------------------------------------------------------------
(* Float arithmetic with NaN *)

NaN == <<0, 0>>

IsNaN(a) == a[2] = 0

AbsI(i) == IF i < 0 THEN -i ELSE i

RECURSIVE GCD(_, _)
GCD(a, b) == IF b = 0 THEN a ELSE GCD(b, a % b)

\* the rational n/d (d # 0) in lowest terms with a positive denominator
Norm(n, d) ==
    LET g == GCD(AbsI(n), AbsI(d))
        s == IF d < 0 THEN -1 ELSE 1
    IN  <<(s * n) \div g, (s * d) \div g>>

Q(i) == <<i, 1>>

QAdd(a, b) == IF IsNaN(a) \/ IsNaN(b) THEN NaN
              ELSE Norm(a[1] * b[2] + b[1] * a[2], a[2] * b[2])

QSub(a, b) == IF IsNaN(a) \/ IsNaN(b) THEN NaN
              ELSE Norm(a[1] * b[2] - b[1] * a[2], a[2] * b[2])

QMul(a, b) == IF IsNaN(a) \/ IsNaN(b) THEN NaN
              ELSE Norm(a[1] * b[1], a[2] * b[2])

\* a / b for b # 0 (the code divides only by a truthy value); x / NaN is NaN
QDiv(a, b) == IF IsNaN(a) \/ IsNaN(b) THEN NaN
              ELSE Norm(a[1] * b[2], a[2] * b[1])

QAbs(a) == IF IsNaN(a) THEN NaN ELSE <<AbsI(a[1]), a[2]>>

\* a < b: every comparison with NaN is False
QLt(a, b) == ~IsNaN(a) /\ ~IsNaN(b) /\ a[1] * b[2] < b[1] * a[2]

QLe(a, b) == ~IsNaN(a) /\ ~IsNaN(b) /\ a[1] * b[2] <= b[1] * a[2]

\* bool(x) of a float: zero is falsy, everything else (NaN too) is truthy
Truthy(a) == IsNaN(a) \/ a[1] # 0

-----------------------------------------------------------------------------
(* numpy on 1-D and 2-D arrays; a 2-D array is a sequence of rows *)

RECURSIVE SumSeq(_)
SumSeq(s) == IF s = <<>> THEN Q(0) ELSE QAdd(s[1], SumSeq(Tail(s)))

NotNaNs(s) == SelectSeq(s, LAMBDA v : ~IsNaN(v))

\* s with v inserted before the first element greater than v (s sorted)
RECURSIVE Insert(_, _)
Insert(v, s) ==
    IF s = <<>> THEN <<v>>
    ELSE IF QLe(v, s[1]) THEN <<v>> \o s
    ELSE <<s[1]>> \o Insert(v, Tail(s))

RECURSIVE Sorted(_)
Sorted(s) == IF s = <<>> THEN <<>> ELSE Insert(s[1], Sorted(Tail(s)))

\* a faulty variant of nanmean: a NaN entry counts as a zero
nanmean_nan_as_zero(s) ==
    IF s = <<>> THEN NaN ELSE QDiv(SumSeq(NotNaNs(s)), Q(Len(s)))

\* a faulty variant of nanmean: the mean of nothing is zero
nanmean_empty_zero(s) ==
    LET v == NotNaNs(s)
    IN  IF v = <<>> THEN Q(0) ELSE QDiv(SumSeq(v), Q(Len(v)))

\* np.nanmean of a 1-D array: NaN (and a RuntimeWarning) when nothing is left
nanmean(s) ==
    LET v == NotNaNs(s)
    IN  IF v = <<>> THEN NaN ELSE QDiv(SumSeq(v), Q(Len(v)))

\* the middle of a sequence as it stands (no sorting): a faulty variant of nanmedian
MiddleUnsorted(s) ==
    LET v == NotNaNs(s)
        n == Len(v)
    IN  IF n = 0 THEN NaN
        ELSE IF n % 2 = 1 THEN v[(n + 1) \div 2]
        ELSE QDiv(QAdd(v[n \div 2], v[n \div 2 + 1]), Q(2))

\* np.nanmedian of a 1-D array: NaN (and a RuntimeWarning) when nothing is left
nanmedian(s) ==
    LET v == Sorted(NotNaNs(s))
        n == Len(v)
    IN  IF n = 0 THEN NaN
        ELSE IF n % 2 = 1 THEN v[(n + 1) \div 2]
        ELSE QDiv(QAdd(v[n \div 2], v[n \div 2 + 1]), Q(2))

\* number of columns of a 2-D array with at least one row
NumCols(data) == Len(data[1])

\* data.T[j]
Column(data, j) == [i \in 1..Len(data) |-> data[i][j]]

\* np.nanmean(data, axis=0)
nanmean_axis0(data) == [j \in 1..NumCols(data) |-> nanmean(Column(data, j))]

\* np.nanmedian(data, axis=0)
nanmedian_axis0(data) == [j \in 1..NumCols(data) |-> nanmedian(Column(data, j))]

\* data_i[mask] for a boolean array mask
BoolIndex(data_i, mask) ==
    LET RECURSIVE Pick(_)
        Pick(i) == IF i > Len(data_i) THEN <<>>
                   ELSE (IF mask[i] THEN <<data_i[i]>> ELSE <<>>) \o Pick(i + 1)
    IN  Pick(1)

\* data_i[b] for a Python bool b: the whole array under a new axis, or nothing
ScalarIndex(data_i, b) == IF b THEN data_i ELSE <<>>

\* a faulty variant of mean_wo_outliers_col: the comparison s <= m
mean_wo_outliers_col_le(data_i, m) ==
    LET med  == nanmedian(data_i)
        d    == [i \in 1..Len(data_i) |-> QAbs(QSub(data_i[i], med))]
        mdev == nanmedian(d)
    IN  IF Truthy(mdev)
        THEN LET s == [i \in 1..Len(d) |-> QDiv(d[i], mdev)]
             IN  nanmean(BoolIndex(data_i, [i \in 1..Len(s) |-> QLe(s[i], Q(m))]))
        ELSE nanmean(ScalarIndex(data_i, 0 <= m))

\* a faulty variant of mean_wo_outliers_col: a zero MAD rejects every path
mean_wo_outliers_col_mad0(data_i, m) ==
    LET med  == nanmedian(data_i)
        d    == [i \in 1..Len(data_i) |-> QAbs(QSub(data_i[i], med))]
        mdev == nanmedian(d)
    IN  IF Truthy(mdev)
        THEN LET s == [i \in 1..Len(d) |-> QDiv(d[i], mdev)]
             IN  nanmean(BoolIndex(data_i, [i \in 1..Len(s) |-> QLt(s[i], Q(m))]))
        ELSE nanmean(<<>>)

\* a faulty variant of mean_wo_outliers_col: the scaled deviation is compared
\* with m - 1
mean_wo_outliers_col_narrow(data_i, m) ==
    LET med  == nanmedian(data_i)
        d    == [i \in 1..Len(data_i) |-> QAbs(QSub(data_i[i], med))]
        mdev == nanmedian(d)
    IN  IF Truthy(mdev)
        THEN LET s == [i \in 1..Len(d) |-> QDiv(d[i], mdev)]
             IN  nanmean(BoolIndex(data_i, [i \in 1..Len(s) |-> QLt(s[i], Q(m - 1))]))
        ELSE nanmean(ScalarIndex(data_i, 0 < m - 1))

\* the body of the loop of mean_wo_outliers, for one column data_i
mean_wo_outliers_col(data_i, m) ==
    LET med  == nanmedian(data_i)
        d    == [i \in 1..Len(data_i) |-> QAbs(QSub(data_i[i], med))]
        mdev == nanmedian(d)
    IN  IF Truthy(mdev)
        THEN LET s == [i \in 1..Len(d) |-> QDiv(d[i], mdev)]
             IN  nanmean(BoolIndex(data_i, [i \in 1..Len(s) |-> QLt(s[i], Q(m))]))
        ELSE nanmean(ScalarIndex(data_i, 0 < m))

\* FractureAnalysis.mean_wo_outliers(data, m)
mean_wo_outliers(data, m) ==
    [j \in 1..NumCols(data) |-> mean_wo_outliers_col(Column(data, j), m)]

-----------------------------------------------------------------------------
(* Python values *)

None == <<>>

Some(x) == <<x>>

Range(s) == {s[i] : i \in 1..Len(s)}

\* the dict {n: v[index] for index, n in enumerate(keys)}: a later index wins
DictOf(keys, v) ==
    [k \in Range(keys) |->
        v[CHOOSE i \in 1..Len(keys) :
            keys[i] = k /\ \A j \in 1..Len(keys) : keys[j] = k => j <= i]]

\* a faulty variant of IndexOf: a missing element is looked up at the first position
IndexOfOrFirst(s, x) ==
    IF x \in Range(s) THEN CHOOSE i \in 1..Len(s) : s[i] = x /\ \A j \in 1..(i - 1) : s[j] # x
    ELSE 1

\* list.index(x): the first position of x (from 1), or 0 for ValueError
IndexOf(s, x) ==
    IF x \in Range(s) THEN CHOOSE i \in 1..Len(s) : s[i] = x /\ \A j \in 1..(i - 1) : s[j] # x
    ELSE 0

-----------------------------------------------------------------------------
(* Physical quantities: (c + cpi * pi) * u for rationals c, cpi and a unit u;
   the units are the irrational factors of the conversion formulas *)

U_ONE == "1"
U_HALFPI_MM == "sqrt(pi/2)/sqrt(1000)"
U_TWOPI_MM == "sqrt(2*pi)/sqrt(1000)"

Plain(v) == [c |-> v, cpi |-> Q(0), u |-> U_ONE]

NaNQuantity == [c |-> NaN, cpi |-> Q(0), u |-> U_ONE]

\* (c + cpi * pi) * u; NaN and zero carry no unit
Quantity(c, cpi, u) ==
    IF IsNaN(c) \/ IsNaN(cpi) THEN NaNQuantity
    ELSE IF c[1] = 0 /\ cpi[1] = 0 THEN Plain(Q(0))
    ELSE [c |-> c, cpi |-> cpi, u |-> u]

IsNaNQuantity(q) == IsNaN(q.c)

-----------------------------------------------------------------------------
(* Configurations the orchestrator is constructed with *)

\* orders an OptimizationProperties may ask the Williams fit for
FitTermLists == {<<>>, <<1, 2>>, <<2, 1>>, <<1, 3>>}

\* orders an IntegralProperties may ask the Bueckner-Chen integral for
IntTermLists == {<<1, 2>>, <<2, 1>>, <<2>>}

\* the first geometry moves every side by a distance of its own and reaches a
\* left size of 0 on its third path; the second keeps all sides in place
Geometries ==
    { [integral_size_left |-> 2, integral_size_right |-> 6,
       integral_size_bottom |-> 7, integral_size_top |-> 8,
       paths_distance_left |-> 1, paths_distance_right |-> 2,
       paths_distance_bottom |-> 3, paths_distance_top |-> 4],
      [integral_size_left |-> 9, integral_size_right |-> 9,
       integral_size_bottom |-> 9, integral_size_top |-> 9,
       paths_distance_left |-> 0, paths_distance_right |-> 0,
       paths_distance_bottom |-> 0, paths_distance_top |-> 0] }

OptConfigs == {None} \cup {Some([terms |-> t]) : t \in FitTermLists}

IntConfigs ==
    {None} \cup
    {Some([integral_size_left |-> g.integral_size_left,
           integral_size_right |-> g.integral_size_right,
           integral_size_bottom |-> g.integral_size_bottom,
           integral_size_top |-> g.integral_size_top,
           paths_distance_left |-> g.paths_distance_left,
           paths_distance_right |-> g.paths_distance_right,
           paths_distance_bottom |-> g.paths_distance_bottom,
           paths_distance_top |-> g.paths_distance_top,
           number_of_paths |-> n,
           mask_tolerance |-> "mask_tolerance",
           buckner_williams_terms |-> t]) :
        g \in Geometries, n \in (-1)..MaxPaths, t \in IntTermLists}

\* self.optimization.terms: the orders of the optimization configuration
optimization_terms == optimization_properties[1].terms

-----------------------------------------------------------------------------
(* The collaborators: what an optimizer call and a line-integral call may give *)

Raise == [ok |-> FALSE]

\* OptimizeResult of optimize_cjp_displacements: x = (A_r, B_r, B_i, C, E), cost
CJPSolutions ==
    { [ok |-> TRUE, x |-> <<1, 0, 0, 2, 0>>, cost |-> Q(0)],
      [ok |-> TRUE, x |-> <<2, 1, 1, 3, 1>>, cost |-> Q(1)] }

\* OptimizeResult of optimize_williams_displacements for the orders `terms`:
\* x holds the a_n of the orders, then the b_n
WilliamsSolutions(terms) ==
    LET k == Len(terms)
    IN  { [ok |-> TRUE, x |-> [i \in 1..(2 * k) |-> Q(i)], cost |-> Q(1)],
          [ok |-> TRUE,
           x |-> [i \in 1..(2 * k) |->
                    IF i <= k
                    THEN (IF terms[i] = 1 THEN Q(1)
                          ELSE IF terms[i] = 2 THEN Norm(1, 2) ELSE Q(0))
                    ELSE (IF terms[i - k] = 1 THEN Q(1) ELSE Q(0))],
           cost |-> Q(0)] }

Profiles == {"low", "high", "nan"}

ProfileBase(p) == IF p = "high" THEN 10 ELSE 0

\* the line integral of one path: seven scalars and one a_n, b_n per order
LineIntegral(p, terms, sizes) ==
    LET v(c) == IF p = "nan" /\ c % 2 = 1 THEN NaN ELSE Q(ProfileBase(p) + c)
    IN  [ok |-> TRUE,
         j_integral |-> v(1), sif_k_j |-> v(2), sif_k_i |-> v(3), sif_k_ii |-> v(4),
         t_stress_chen |-> v(5), t_stress_sdm |-> v(6), t_stress_int |-> v(7),
         williams_a_n |-> [i \in 1..Len(terms) |->
                             IF p = "nan" THEN NaN ELSE Q(ProfileBase(p) + terms[i])],
         williams_b_n |-> [i \in 1..Len(terms) |-> Q(ProfileBase(p) - terms[i])],
         williams_coefficients |-> p,
         current_int_sizes |-> sizes,
         np_integration_points |-> <<p, p>>,
         number_of_nodes |-> ProfileBase(p) + 4,
         tick_size |-> ProfileBase(p) + 1]

-----------------------------------------------------------------------------
(* crackpy.structure_elements: the result records *)

\* the dict of a tag in tags.py holds the keys 'tag', 'unit' and 'label': a
\* lookup of 'ltm' raises KeyError
TagHasLtm == FALSE

\* TagWillimasFitting (both definitions in tags.py) defines neither `orders`
\* nor `coeff`: a lookup of tag_williams.coeff raises AttributeError
TagWilliamsHasCoeff == FALSE

\* _create_williams_model(orders): the record class with one a_n and one b_n
\* field per order.  The fixed fields look up tag_williams.error['ltm'] and so
\* on, and tag_williams.coeff is looked up once per order
create_williams_model(orders) ==
    [raised |-> ~TagHasLtm \/ (orders # <<>> /\ ~TagWilliamsHasCoeff),
     orders |-> Range(orders)]

\* model_cls(error=.., K_I=.., K_II=.., K_V=.., T=.., **fields): the fields of
\* the class, each required; keys that are no field of the class are ignored
WilliamsRecord(cls, error, K_I, K_II, K_V, T, a, b) ==
    [valid |-> cls.orders \subseteq DOMAIN a /\ cls.orders \subseteq DOMAIN b,
     rec |-> [error |-> error, K_I |-> K_I, K_II |-> K_II, K_V |-> K_V, T |-> T,
              a |-> [o \in cls.orders \cap DOMAIN a |-> a[o]],
              b |-> [o \in cls.orders \cap DOMAIN b |-> b[o]]]]

\* CJPResults of the except branch of _run_cjp_optimization
CJPFailed ==
    [error |-> NaNQuantity, K_F |-> NaNQuantity, K_R |-> NaNQuantity, K_S |-> NaNQuantity,
     K_II |-> NaNQuantity, K_eff_Yang |-> NaNQuantity, K_eff_Nowell |-> NaNQuantity,
     T |-> NaNQuantity]

\* a faulty variant of CJPConverted: the factors are not converted from m to mm
CJPConvertedUnscaled(x, cost) ==
    LET A_r == x[1]  B_r == x[2]  B_i == x[3]  C == x[4]  E == x[5]
    IN  [error |-> Plain(cost),
         K_F |-> Quantity(Q(A_r - 3 * B_r - 8 * E), Q(0), "sqrt(pi/2)"),
         K_R |-> Quantity(Q(-4 * 2 * B_i), Q(-4 * E), "sqrt(pi/2)"),
         K_S |-> Quantity(Q(-(A_r + B_r)), Q(0), "sqrt(pi/2)"),
         K_II |-> Quantity(Q(2 * B_i), Q(0), "sqrt(2*pi)"),
         K_eff_Yang |-> NaNQuantity,
         K_eff_Nowell |-> NaNQuantity,
         T |-> Plain(Q(-C))]

\* CJPResults of the try branch: Christopher et al. (2013), formulas 4-8, m to mm
CJPConverted(x, cost) ==
    LET A_r == x[1]  B_r == x[2]  B_i == x[3]  C == x[4]  E == x[5]
    IN  [error |-> Plain(cost),
         K_F |-> Quantity(Q(A_r - 3 * B_r - 8 * E), Q(0), U_HALFPI_MM),
         K_R |-> Quantity(Q(-4 * 2 * B_i), Q(-4 * E), U_HALFPI_MM),
         K_S |-> Quantity(Q(-(A_r + B_r)), Q(0), U_HALFPI_MM),
         K_II |-> Quantity(Q(2 * B_i), Q(0), U_TWOPI_MM),
         K_eff_Yang |-> NaNQuantity,
         K_eff_Nowell |-> NaNQuantity,
         T |-> Plain(Q(-C))]

-----------------------------------------------------------------------------
(* The aggregation functions applied to bounded inputs *)

\* values of the first column, of the second column, and the thresholds tried
Vals1 == {NaN} \cup {Q(i) : i \in 0..MaxVal}
Vals2 == {NaN, Q(MaxVal)}
Thresholds == {1, 2}

AggRows == {<<a, b>> : a \in Vals1, b \in Vals2}

AggInputs == UNION {[1..n -> AggRows] : n \in 1..MaxPaths}

NoOut == [mean |-> <<>>, median |-> <<>>, rej_out_mean |-> <<>>]

\* the aggregation harness is not in use
AggOff ==
    /\ agg_pc = "off"
    /\ agg_data = <<>>
    /\ agg_m = 0
    /\ agg_out = NoOut

\* only one orchestrator is looked at: its objects are not tracked by identity
HeapOff ==
    /\ objects = <<>>
    /\ instances = <<>>
    /\ accumulators = <<>>

\* no orchestrator is in use
MainOff ==
    /\ optimization_properties = None /\ integral_properties = None /\ fields = {}
    /\ pc = "off" /\ progress = "off"
    /\ cjp_coeffs = None /\ res_cjp = None /\ williams_coeffs = None
    /\ williams_fit_a_n = None /\ williams_fit_b_n = None /\ sifs_fit = None
    /\ results = <<>> /\ williams_int_a_n = <<>> /\ williams_int_b_n = <<>>
    /\ williams_int = <<>> /\ sifs_int = None
    /\ int_sizes = <<>> /\ integration_points = <<>> /\ tick_sizes = <<>>
    /\ num_of_path_nodes = <<>>
    /\ current_size_left = 0 /\ current_size_right = 0
    /\ current_size_top = 0 /\ current_size_bottom = 0 /\ n_done = 0
    /\ li_calls = <<>> /\ opt_calls = <<>> /\ sink = <<>> /\ agg_calls = 0
    /\ raised_by = "" /\ fits_at_sweep = <<>> /\ events = <<>>
    /\ arrays = FALSE /\ normalizations = <<>> /\ rows_at_run = 0 /\ sifs_at_run = None

InitAgg ==
    /\ MainOff
    /\ HeapOff
    /\ agg_pc = "loaded"
    /\ agg_data \in AggInputs
    /\ agg_m \in Thresholds
    /\ agg_out = NoOut

\* the three statistics of _aggregate_integral_results on one array
Aggregate ==
    /\ agg_pc = "loaded"
    /\ agg_out' = [mean         |-> nanmean_axis0(agg_data),
                   median       |-> nanmedian_axis0(agg_data),
                   rej_out_mean |-> mean_wo_outliers(agg_data, agg_m)]
    /\ agg_pc' = "done"
    /\ UNCHANGED <<agg_data, agg_m, mainvars, heapvars>>

NextAgg == Aggregate

SpecAgg == InitAgg /\ [][NextAgg]_vars

-----------------------------------------------------------------------------
(* FractureAnalysis.__init__ *)

BaseFields == {"material", "nodemap_file", "data", "crack_tip",
               "optimization_properties", "integral_properties"}

\* attributes set by _init_optimizaton_results, and the optimizer itself
OptimizationFields == {"optimization", "cjp_coeffs", "res_cjp", "williams_coeffs",
                       "williams_fit_a_n", "williams_fit_b_n", "sifs_fit"}

\* attributes set by _init_integral_results
IntegralFields == {"results", "williams_int_a_n", "williams_int_b_n", "williams_int",
                   "sifs_int", "int_sizes", "integration_points", "tick_sizes",
                   "num_of_path_nodes"}

\* the attributes __init__ creates for the configurations op and ip
InitFields(op, ip) ==
    BaseFields
        \cup (IF op # None THEN OptimizationFields ELSE {})
        \cup (IF ip # None THEN IntegralFields ELSE {})

\* the ensure_defaults calls of __init__: one for each configuration that is
\* not None, the optimization configuration first
InitNormalizations(op, ip) ==
    (IF op # None
     THEN <<[config |-> "optimization_properties", args |-> <<"crack_tip.crack_tip_x">>]>>
     ELSE <<>>)
        \o (IF ip # None
            THEN <<[config |-> "integral_properties", args |-> <<>>]>>
            ELSE <<>>)

Init ==
    /\ AggOff
    /\ HeapOff
    /\ optimization_properties \in OptConfigs
    /\ integral_properties \in IntConfigs
    /\ fields = InitFields(optimization_properties, integral_properties)
    /\ pc = "idle" /\ progress = "off"
    \* _init_optimizaton_results
    /\ cjp_coeffs = None /\ res_cjp = None /\ williams_coeffs = None
    /\ williams_fit_a_n = None /\ williams_fit_b_n = None /\ sifs_fit = None
    \* _init_integral_results
    /\ results = <<>> /\ williams_int_a_n = <<>> /\ williams_int_b_n = <<>>
    /\ williams_int = <<>> /\ sifs_int = None
    /\ int_sizes = <<>> /\ integration_points = <<>> /\ tick_sizes = <<>>
    /\ num_of_path_nodes = <<>>
    /\ current_size_left = 0 /\ current_size_right = 0
    /\ current_size_top = 0 /\ current_size_bottom = 0 /\ n_done = 0
    /\ li_calls = <<>> /\ opt_calls = <<>> /\ sink = <<>> /\ agg_calls = 0
    /\ raised_by = "" /\ fits_at_sweep = <<>> /\ events = <<>>
    /\ arrays = FALSE /\ rows_at_run = 0 /\ sifs_at_run = None
    /\ normalizations = InitNormalizations(optimization_properties, integral_properties)

-----------------------------------------------------------------------------
(* FractureAnalysis.run and the runners it dispatches to *)

ProgressArguments == {"off", "None", "sink"}

\* where run() goes once the fits are over
AfterFits == IF integral_properties # None THEN "integrals" ELSE "done"

\* a faulty variant of RunNormalizations: run() resolves the defaults again
RunNormalizesAgain == InitNormalizations(optimization_properties, integral_properties)

\* the ensure_defaults calls of run(): it makes none
RunNormalizations == <<>>

\* run(progress, task_id): the dispatch on the two configurations.  run() may
\* be called again once a call has returned or raised; the series are kept
\* within MaxPaths + 1 rows
run ==
    /\ pc \in {"idle", "done", "raised"}
    /\ integral_properties # None =>
            Len(results) + integral_properties[1].number_of_paths <= MaxPaths + 1
    /\ \E p \in ProgressArguments : progress' = p
    /\ pc' = IF optimization_properties # None THEN "cjp" ELSE AfterFits
    /\ normalizations' = normalizations \o RunNormalizations
    /\ rows_at_run' = Len(results)
    /\ sifs_at_run' = sifs_int
    /\ li_calls' = <<>> /\ opt_calls' = <<>> /\ sink' = <<>> /\ agg_calls' = 0
    /\ raised_by' = "" /\ events' = <<>>
    /\ UNCHANGED <<cfgvars, fitvars, seriesvars, sifs_int, loopvars, fits_at_sweep,
                   arrays, aggvars, heapvars>>

\* what _run_cjp_optimization stores for the optimizer outcome `out`
CJPOutcome(out) ==
    IF out.ok
    THEN [raised |-> FALSE, coeffs |-> Some(out.x), res |-> Some(CJPConverted(out.x, out.cost))]
    ELSE [raised |-> FALSE, coeffs |-> cjp_coeffs, res |-> Some(CJPFailed)]

_run_cjp_optimization ==
    /\ pc = "cjp"
    /\ \E out \in CJPSolutions \cup {Raise} :
        LET o == CJPOutcome(out)
        IN  /\ cjp_coeffs' = o.coeffs
            /\ res_cjp' = o.res
            /\ pc' = IF o.raised THEN "raised" ELSE "williams"
            /\ raised_by' = IF o.raised THEN "cjp" ELSE raised_by
            /\ opt_calls' = Append(opt_calls, [method |-> "cjp", ok |-> out.ok])
    /\ UNCHANGED <<cfgvars, progress, williams_coeffs, williams_fit_a_n, williams_fit_b_n,
                   sifs_fit, seriesvars, sifs_int, loopvars, li_calls, sink, agg_calls,
                   events, fits_at_sweep, lifevars, aggvars, heapvars>>

\* what _run_williams_optimization stores for the optimizer outcome `out`:
\* the try branch up to the first exception, then the except branch
WilliamsOutcome(out) ==
    LET terms == optimization_terms
        k     == Len(terms)
        a_n   == [i \in 1..k |-> out.x[i]]
        b_n   == [i \in 1..k |-> out.x[k + i]]
        fit_a == DictOf(terms, a_n)
        fit_b == DictOf(terms, b_n)
        cls   == create_williams_model(terms)
        \* the try branch runs to its end
        tried == /\ out.ok
                 /\ 1 \in DOMAIN fit_a      \* self.williams_fit_a_n[1], ..._b_n[1]
                 /\ 2 \in DOMAIN fit_a      \* self.williams_fit_a_n[2]
                 /\ ~cls.raised
        nan_a == [o \in Range(terms) |-> NaN]
        good  == WilliamsRecord(cls, Plain(out.cost),
                                Quantity(fit_a[1], Q(0), U_TWOPI_MM),
                                Quantity(QSub(Q(0), fit_b[1]), Q(0), U_TWOPI_MM),
                                NaNQuantity,
                                Plain(QMul(Q(4), fit_a[2])),
                                fit_a, fit_b)
        bad   == WilliamsRecord(cls, NaNQuantity, NaNQuantity, NaNQuantity, NaNQuantity,
                                NaNQuantity, nan_a, nan_a)
    IN  IF tried /\ good.valid
        THEN [raised |-> FALSE, coeffs |-> Some(out.x),
              a |-> Some(fit_a), b |-> Some(fit_b), fit |-> Some(good.rec)]
        ELSE [raised |-> cls.raised \/ ~bad.valid,
              coeffs |-> IF out.ok THEN Some(out.x) ELSE williams_coeffs,
              a |-> Some(nan_a), b |-> Some(nan_a),
              fit |-> IF cls.raised \/ ~bad.valid THEN sifs_fit ELSE Some(bad.rec)]

_run_williams_optimization ==
    /\ pc = "williams"
    /\ \E out \in WilliamsSolutions(optimization_terms) \cup {Raise} :
        LET o == WilliamsOutcome(out)
        IN  /\ williams_coeffs' = o.coeffs
            /\ williams_fit_a_n' = o.a
            /\ williams_fit_b_n' = o.b
            /\ sifs_fit' = o.fit
            /\ pc' = IF o.raised THEN "raised" ELSE AfterFits
            /\ raised_by' = IF o.raised THEN "williams" ELSE raised_by
            /\ opt_calls' = Append(opt_calls, [method |-> "williams", ok |-> out.ok])
    /\ UNCHANGED <<cfgvars, progress, cjp_coeffs, res_cjp, seriesvars, sifs_int, loopvars,
                   li_calls, sink, agg_calls, events, fits_at_sweep, lifevars, aggvars, heapvars>>

-----------------------------------------------------------------------------
(* FractureAnalysis._run_line_integrals *)

ip == integral_properties[1]

\* a faulty variant of PathCount: the loop body runs before the count is tested
PathCountAtLeastOne == IF ip.number_of_paths < 1 THEN 1 ELSE ip.number_of_paths

\* the number of iterations of range(number_of_paths): none for a count <= 0
PathCount == IF ip.number_of_paths < 0 THEN 0 ELSE ip.number_of_paths

\* lines 213-222: the sizes of the first path and the iterator over the paths
_run_line_integrals_begin ==
    /\ pc = "integrals"
    /\ current_size_left' = ip.integral_size_left
    /\ current_size_right' = ip.integral_size_right
    /\ current_size_top' = ip.integral_size_top
    /\ current_size_bottom' = ip.integral_size_bottom
    /\ n_done' = 0
    /\ pc' = "loop"
    /\ fits_at_sweep' = fitvars
    /\ UNCHANGED <<cfgvars, progress, fitvars, seriesvars, sifs_int,
                   logvars, lifevars, aggvars, heapvars>>

\* the arguments of the calculate_line_integral call of the current path
CurrentCall ==
    [left |-> current_size_left, right |-> current_size_right,
     bottom |-> current_size_bottom, top |-> current_size_top,
     mask_tolerance |-> ip.mask_tolerance, terms |-> ip.buckner_williams_terms]

\* a faulty variant of NextSizes: every side grows
NextSizesAllGrow ==
    [left   |-> current_size_left + ip.paths_distance_left,
     right  |-> current_size_right + ip.paths_distance_right,
     bottom |-> current_size_bottom + ip.paths_distance_bottom,
     top    |-> current_size_top + ip.paths_distance_top]

\* "Update path": the sizes of the path after the current one
NextSizes ==
    [left   |-> current_size_left - ip.paths_distance_left,
     right  |-> current_size_right + ip.paths_distance_right,
     bottom |-> current_size_bottom - ip.paths_distance_bottom,
     top    |-> current_size_top + ip.paths_distance_top]

\* a faulty variant of PathFailed: the exception is swallowed and the path skipped
PathFailedSkipped ==
    /\ pc' = "loop"
    /\ n_done' = n_done + 1
    /\ events' = events
    /\ UNCHANGED <<seriesvars, sink, raised_by, current_size_left, current_size_right,
                   current_size_top, current_size_bottom>>

\* calculate_line_integral raises: nothing catches it, the loop and run() end
PathFailed ==
    /\ pc' = "raised"
    /\ raised_by' = "line_integral"
    /\ events' = events
    /\ UNCHANGED <<seriesvars, loopvars, sink>>

\* the event of the evaluation of path n (from 0)
Evaluated(n) == [type |-> "evaluate", path |-> n]

\* a faulty variant of Notified: the index of the path instead of the count
NotifiedIndex(n) == [progress |-> n, total |-> ip.number_of_paths]

\* "Update progress bar": what is stored in the sink after path n (from 0)
Notified(n) == [progress |-> n + 1, total |-> ip.number_of_paths]

\* the notification as an event
Notification(n) == [type |-> "notify", progress |-> Notified(n).progress,
                    total |-> Notified(n).total]

\* one iteration of the loop over the paths
_run_line_integrals_path ==
    /\ pc = "loop"
    /\ n_done < PathCount
    /\ \E out \in {LineIntegral(p, ip.buckner_williams_terms,
                                <<current_size_left, current_size_right,
                                  current_size_bottom, current_size_top>>) :
                       p \in Profiles} \cup {Raise} :
        /\ li_calls' = Append(li_calls, [args |-> CurrentCall, ok |-> out.ok])
        /\ IF ~out.ok
           THEN PathFailed
           ELSE IF arrays
           \* self.results is a list still, but self.williams_int_a_n is an
           \* ndarray, which has no append: AttributeError
           THEN /\ results' = Append(results,
                       <<out.j_integral, out.sif_k_j, out.sif_k_i, out.sif_k_ii,
                         out.t_stress_chen, out.t_stress_sdm, out.t_stress_int>>)
                /\ pc' = "raised" /\ raised_by' = "append"
                /\ events' = Append(events, Evaluated(n_done))
                /\ UNCHANGED <<williams_int_a_n, williams_int_b_n, williams_int, int_sizes,
                               integration_points, tick_sizes, num_of_path_nodes,
                               loopvars, sink>>
           ELSE /\ results' = Append(results,
                       <<out.j_integral, out.sif_k_j, out.sif_k_i, out.sif_k_ii,
                         out.t_stress_chen, out.t_stress_sdm, out.t_stress_int>>)
                /\ williams_int_a_n' = Append(williams_int_a_n, out.williams_a_n)
                /\ williams_int_b_n' = Append(williams_int_b_n, out.williams_b_n)
                /\ williams_int' = Append(williams_int, out.williams_coefficients)
                /\ int_sizes' = Append(int_sizes, out.current_int_sizes)
                /\ integration_points' = Append(integration_points,
                                                out.np_integration_points)
                /\ num_of_path_nodes' = Append(num_of_path_nodes, out.number_of_nodes)
                /\ tick_sizes' = Append(tick_sizes, out.tick_size)
                /\ current_size_left' = NextSizes.left
                /\ current_size_right' = NextSizes.right
                /\ current_size_bottom' = NextSizes.bottom
                /\ current_size_top' = NextSizes.top
                \* "Update progress bar": progress[task_id] = {...} unless progress == "off";
                \* None supports no item assignment
                /\ IF progress = "off"
                   THEN /\ pc' = "loop" /\ n_done' = n_done + 1
                        /\ events' = Append(events, Evaluated(n_done))
                        /\ UNCHANGED <<sink, raised_by>>
                   ELSE IF progress = "None"
                   THEN /\ pc' = "raised" /\ raised_by' = "progress"
                        /\ events' = Append(events, Evaluated(n_done))
                        /\ UNCHANGED <<n_done, sink>>
                   ELSE /\ sink' = Append(sink, Notified(n_done))
                        /\ events' = events \o <<Evaluated(n_done), Notification(n_done)>>
                        /\ pc' = "loop" /\ n_done' = n_done + 1
                        /\ UNCHANGED raised_by
    /\ UNCHANGED <<cfgvars, progress, fitvars, sifs_int, opt_calls, agg_calls,
                   fits_at_sweep, lifevars, aggvars, heapvars>>

-----------------------------------------------------------------------------
(* FractureAnalysis._aggregate_integral_results *)

\* a faulty variant of SIFsIntegralResults: the first entry of a_n and b_n,
\* whichever order it belongs to
SIFsIntegralResultsFirstEntry(stat, a_n, b_n, term_index) ==
    [J            |-> Plain(stat[1]),
     K_J          |-> Plain(stat[2]),
     K_I_interac  |-> Plain(stat[3]),
     K_II_interac |-> Plain(stat[4]),
     K_I_Chen     |-> Quantity(a_n[1], Q(0), U_TWOPI_MM),
     K_II_Chen    |-> Quantity(QSub(Q(0), b_n[1]), Q(0), U_TWOPI_MM),
     T_Chen       |-> Plain(stat[5]),
     T_SDM        |-> Plain(stat[6]),
     T_interac    |-> Plain(stat[7])]

\* one of the three result records: seven aggregated scalars and the two
\* Bueckner-Chen stress intensity factors
SIFsIntegralResults(stat, a_n, b_n, term_index) ==
    [J            |-> Plain(stat[1]),
     K_J          |-> Plain(stat[2]),
     K_I_interac  |-> Plain(stat[3]),
     K_II_interac |-> Plain(stat[4]),
     K_I_Chen     |-> Quantity(a_n[term_index], Q(0), U_TWOPI_MM),
     K_II_Chen    |-> Quantity(QSub(Q(0), b_n[term_index]), Q(0), U_TWOPI_MM),
     T_Chen       |-> Plain(stat[5]),
     T_SDM        |-> Plain(stat[6]),
     T_interac    |-> Plain(stat[7])]

\* the threshold m of the calls of mean_wo_outliers in the aggregation
AggregationM == 2

\* self.sifs_int as the aggregation of the series leaves it
AggregatedResult(res_array, a_n, b_n, terms) ==
    LET term_index == IndexOf(terms, 1)
        mean_a == nanmean_axis0(a_n)
        mean_b == nanmean_axis0(b_n)
        med_a  == nanmedian_axis0(a_n)
        med_b  == nanmedian_axis0(b_n)
        rej_a  == mean_wo_outliers(a_n, AggregationM)
        rej_b  == mean_wo_outliers(b_n, AggregationM)
    IN  [mean         |-> SIFsIntegralResults(nanmean_axis0(res_array), mean_a, mean_b,
                                              term_index),
         median       |-> SIFsIntegralResults(nanmedian_axis0(res_array), med_a, med_b,
                                              term_index),
         rej_out_mean |-> SIFsIntegralResults(mean_wo_outliers(res_array, AggregationM),
                                              rej_a, rej_b, term_index),
         williams_int_a_n |-> [mean |-> mean_a, median |-> med_a, rej_out_mean |-> rej_a],
         williams_int_b_n |-> [mean |-> mean_b, median |-> med_b, rej_out_mean |-> rej_b]]

\* the aggregation raises: no row to unpack the seven means from (line 278),
\* or order 1 is not among the Bueckner-Chen orders (line 298)
AggregationRaises ==
    \/ results = <<>>
    \/ IndexOf(ip.buckner_williams_terms, 1) = 0

\* the end of the loop over the paths, and the aggregation of the series
_aggregate_integral_results ==
    /\ pc = "loop"
    /\ n_done >= PathCount
    /\ agg_calls' = agg_calls + 1
    /\ events' = Append(events, [type |-> "aggregate", rows |-> Len(results)])
    \* np.asarray replaces the three Williams series by arrays
    /\ arrays' = TRUE
    /\ IF AggregationRaises
       THEN pc' = "raised" /\ raised_by' = "aggregate" /\ UNCHANGED sifs_int
       ELSE /\ sifs_int' = Some(AggregatedResult(results, williams_int_a_n,
                                                 williams_int_b_n,
                                                 ip.buckner_williams_terms))
            /\ pc' = "done"
            /\ UNCHANGED raised_by
    /\ UNCHANGED <<cfgvars, progress, fitvars, seriesvars, loopvars,
                   li_calls, opt_calls, sink, fits_at_sweep, normalizations,
                   rows_at_run, sifs_at_run, aggvars, heapvars>>

-----------------------------------------------------------------------------

\* the steps inside a run() that has begun
RunContinues ==
    \/ _run_cjp_optimization
    \/ _run_williams_optimization
    \/ _run_line_integrals_begin
    \/ _run_line_integrals_path
    \/ _aggregate_integral_results

Next ==
    \/ run
    \/ _run_cjp_optimization
    \/ _run_williams_optimization
    \/ _run_line_integrals_begin
    \/ _run_line_integrals_path
    \/ _aggregate_integral_results

Spec == Init /\ [][Next]_vars

-----------------------------------------------------------------------------
(* Properties of the orchestrator, checked under Spec *)

\* run() is over: it returned or an exception left it
RunEnded == pc \in {"done", "raised"}

FitFailed(method) ==
    \E i \in 1..Len(opt_calls) : opt_calls[i].method = method /\ ~opt_calls[i].ok

\* the arguments the i-th calculate_line_integral call (i from 1) is to receive
ExpectedCall(i) ==
    [left   |-> ip.integral_size_left - (i - 1) * ip.paths_distance_left,
     right  |-> ip.integral_size_right + (i - 1) * ip.paths_distance_right,
     bottom |-> ip.integral_size_bottom - (i - 1) * ip.paths_distance_bottom,
     top    |-> ip.integral_size_top + (i - 1) * ip.paths_distance_top,
     mask_tolerance |-> ip.mask_tolerance,
     terms  |-> ip.buckner_williams_terms]

\* C1: with number_of_paths = n >= 1, a sweep that no exception cuts short
\* (it reaches its aggregation, and so does every run() that returns) has
\* called the line-integral service exactly n times and collected exactly n
\* path results (n more rows than the series held when run() began); never
\* more than n calls are made, and the call for path i
\* (0-indexed) receives left = base - i * distance, bottom = base - i *
\* distance, right = base + i * distance and top = base + i * distance, so
\* that path 0 receives the configured base sizes.
C1_PathSweep ==
    integral_properties # None =>
        /\ \A i \in 1..Len(li_calls) : li_calls[i].args = ExpectedCall(i)
        /\ ip.number_of_paths >= 1 => Len(li_calls) <= ip.number_of_paths
        /\ ((pc = "done" \/ agg_calls >= 1) /\ ip.number_of_paths >= 1) =>
            /\ Len(li_calls) = ip.number_of_paths
            /\ Len(results) = rows_at_run + ip.number_of_paths
            /\ \A i \in 1..Len(li_calls) : li_calls[i].ok

\* a run() that returned after MaxPaths paths, each side moved by its own distance
C1_Witness ==
    /\ pc = "done"
    /\ integral_properties # None
    /\ ip.number_of_paths = MaxPaths
    /\ MaxPaths >= 2
    /\ Len(li_calls) = MaxPaths
    /\ ip.paths_distance_left = 1 /\ ip.paths_distance_top = 4
    /\ li_calls[1].args.left = ip.integral_size_left
    /\ li_calls[MaxPaths].args.left = ip.integral_size_left - (MaxPaths - 1)
    /\ li_calls[MaxPaths].args.top = ip.integral_size_top + 4 * (MaxPaths - 1)

AllNaNRecord(r, names) ==
    /\ DOMAIN r = names
    /\ \A f \in names : IsNaNQuantity(r[f])

C5_IntegralExceptionIsFatal ==
    \A i \in 1..Len(li_calls) :
        ~li_calls[i].ok =>
            /\ i = Len(li_calls)
            /\ pc = "raised" /\ raised_by = "line_integral"
            /\ ~ENABLED RunContinues
            /\ agg_calls = 0
            /\ sifs_int = sifs_at_run
            /\ ~arrays => sifs_int = None

\* the service raises on a later path, after a path was collected
C5_Witness ==
    /\ Len(li_calls) >= 2
    /\ ~li_calls[Len(li_calls)].ok
    /\ Len(results) = Len(li_calls) - 1
    /\ ip.number_of_paths > Len(li_calls)
    /\ raised_by = "line_integral"

-----------------------------------------------------------------------------
(* The statistics, stated on the values of a column rather than computed *)

\* positions of the entries of a column that are not NaN
Valid(col) == {i \in 1..Len(col) : ~IsNaN(col[i])}

\* the k-th smallest (k from 1) of the non-NaN values of a column
KthSmallest(col, k) ==
    CHOOSE v \in {col[i] : i \in Valid(col)} :
        /\ Cardinality({i \in Valid(col) : QLt(col[i], v)}) < k
        /\ k <= Cardinality({i \in Valid(col) : QLe(col[i], v)})

\* the median of the non-NaN values: the middle one, or the mean of the two middle ones
MedianOf(col) ==
    LET n == Cardinality(Valid(col))
    IN  IF n = 0 THEN NaN
        ELSE QDiv(QAdd(KthSmallest(col, (n + 1) \div 2), KthSmallest(col, n \div 2 + 1)),
                  Q(2))

\* the absolute deviations of a column from its median, and their median (MAD)
DeviationsOf(col) ==
    LET med == MedianOf(col)
    IN  [i \in 1..Len(col) |-> QAbs(QSub(col[i], med))]

MADOf(col) == MedianOf(DeviationsOf(col))

RECURSIVE SumOver(_, _)
SumOver(col, I) ==
    IF I = {} THEN Q(0)
    ELSE LET i == CHOOSE x \in I : TRUE
         IN  QAdd(col[i], SumOver(col, I \ {i}))

\* the mean of the entries of a column at the positions I; NaN for no position
MeanOver(col, I) ==
    IF I = {} THEN NaN ELSE QDiv(SumOver(col, I), Q(Cardinality(I)))

\* positions of the non-NaN values v with |v - median| / MAD < m; with a zero
\* MAD the scaled deviation of every path is 0
Retained(col, m) ==
    LET dev == DeviationsOf(col)
        mad == MedianOf(dev)
    IN  {i \in Valid(col) :
            IF mad = Q(0) THEN 0 < m ELSE QLt(dev[i], QMul(Q(m), mad))}

AggColumns == 1..NumCols(agg_data)

\* C6: mean_wo_outliers(data, m) returns, for each column on its own, the mean
\* of exactly the non-NaN values v of that column with |v - median| / MAD < m
\* (strict; the scaled deviation is 0 where the MAD is 0), median and MAD being
\* the NaN-ignoring median of the column and of its absolute deviations.  The
\* result of a column is a function of that column alone.
C6_OutlierRejectedMean ==
    agg_pc = "done" =>
        \A j \in AggColumns :
            agg_out.rej_out_mean[j] =
                MeanOver(Column(agg_data, j), Retained(Column(agg_data, j), agg_m))

\* the third path is an outlier of the first quantity (scaled deviation exactly
\* 2 = m) and is not one of the second, to whose mean it contributes
C6_Witness ==
    /\ agg_pc = "done"
    /\ agg_m = 2
    /\ agg_data = << <<Q(0), NaN>>, <<Q(1), Q(MaxVal)>>, <<Q(3), Q(MaxVal)>> >>
    /\ Retained(Column(agg_data, 1), agg_m) = {1, 2}
    /\ Retained(Column(agg_data, 2), agg_m) = {2, 3}
    /\ agg_out.rej_out_mean = <<Norm(1, 2), Q(MaxVal)>>

\* C7: where the MAD of a column is zero, the outlier-rejected mean of the
\* column is the plain NaN-ignoring mean of its values.
C7_ZeroMAD ==
    agg_pc = "done" =>
        \A j \in AggColumns :
            MADOf(Column(agg_data, j)) = Q(0) =>
                /\ agg_out.rej_out_mean[j] =
                        MeanOver(Column(agg_data, j), Valid(Column(agg_data, j)))
                /\ agg_out.rej_out_mean[j] = agg_out.mean[j]

\* a column of unequal values with a zero MAD: 0, 0, 3 has the mean 1
C7_Witness ==
    /\ agg_pc = "done"
    /\ Len(agg_data) = 3
    /\ Column(agg_data, 1) = <<Q(0), Q(0), Q(3)>>
    /\ MADOf(Column(agg_data, 1)) = Q(0)
    /\ agg_out.rej_out_mean[1] = Q(1)

\* the permutations of the positions 1..n
RowOrders(n) == Permutations(1..n)

C10_NaNExcluded ==
    agg_pc = "done" =>
        \A j \in AggColumns :
            LET col == Column(agg_data, j)
            IN  Valid(col) # {} =>
                    /\ agg_out.mean[j] =
                            QDiv(SumOver(col, Valid(col)), Q(Cardinality(Valid(col))))
                    /\ agg_out.median[j] = MedianOf(col)

\* a column that holds a NaN beside two values: the mean of NaN, 1, 3 is 2
C10_Witness ==
    /\ agg_pc = "done"
    /\ Column(agg_data, 1) = <<NaN, Q(1), Q(3)>>
    /\ agg_out.mean[1] = Q(2)
    /\ agg_out.median[1] = Q(2)

-----------------------------------------------------------------------------
(* The aggregation inside run(), checked under Spec *)

\* the field of a result record that holds column c of self.results
FieldOfColumn == <<"J", "K_J", "K_I_interac", "K_II_interac", "T_Chen", "T_SDM", "T_interac">>

Statistics == {"mean", "median", "rej_out_mean"}

\* C9: if the value of a quantity is NaN on every path, its mean, its median
\* and its outlier-rejected mean are NaN, and the aggregation raises nothing:
\* with at least one path collected and order 1 among the Bueckner-Chen orders
\* it stores the aggregated result and run() returns.
C9_AllNaNColumn ==
    (integral_properties # None /\ agg_calls = 1 /\ results # <<>>
        /\ 1 \in Range(ip.buckner_williams_terms)) =>
        /\ pc = "done" /\ raised_by = "" /\ sifs_int # None
        /\ \A c \in 1..Len(FieldOfColumn), st \in Statistics :
            (\A i \in 1..Len(results) : IsNaN(results[i][c])) =>
                IsNaNQuantity(sifs_int[1][st][FieldOfColumn[c]])
        /\ \A k \in 1..Len(ip.buckner_williams_terms), st \in Statistics :
            /\ (\A i \in 1..Len(williams_int_a_n) : IsNaN(williams_int_a_n[i][k])) =>
                    IsNaN(sifs_int[1].williams_int_a_n[st][k])
            /\ (\A i \in 1..Len(williams_int_b_n) : IsNaN(williams_int_b_n[i][k])) =>
                    IsNaN(sifs_int[1].williams_int_b_n[st][k])

\* every path gave NaN for J and for the a_n, and the aggregation stored NaN
C9_Witness ==
    /\ pc = "done"
    /\ Len(results) >= 2
    /\ \A i \in 1..Len(results) : IsNaN(results[i][1]) /\ ~IsNaN(results[i][2])
    /\ \A st \in Statistics :
        /\ IsNaNQuantity(sifs_int[1][st].J)
        /\ ~IsNaNQuantity(sifs_int[1][st].K_J)
        /\ IsNaNQuantity(sifs_int[1][st].K_I_Chen)

-----------------------------------------------------------------------------
(* The conversions of the fits *)

\* the CJP optimizer call of this run() returned
CJPSucceeded == \E i \in 1..Len(opt_calls) : opt_calls[i].method = "cjp" /\ opt_calls[i].ok

\* the CJP fit of this run() returned the coefficients A_r=1, B_r=0, B_i=0, C=2, E=0
CJPReferenceFit == CJPSucceeded /\ cjp_coeffs = Some(<<1, 0, 0, 2, 0>>)

\* C11 as the spec states it: for the coefficients (A_r=1, B_r=0, B_i=0, C=2,
\* E=0) of a successful CJP fit the reported T is -2 and the reported K_S is
\* -sqrt(pi/2).
C11_AsStated ==
    CJPReferenceFit =>
        /\ res_cjp[1].T = Plain(Q(-2))
        /\ res_cjp[1].K_S = [c |-> Q(-1), cpi |-> Q(0), u |-> "sqrt(pi/2)"]

\* C11: for the coefficients (A_r=1, B_r=0, B_i=0, C=2, E=0) of a successful
\* CJP fit the reported T is -2 and the reported K_S is -sqrt(pi/2)/sqrt(1000):
\* K_F, K_R, K_S and K_II are converted from m to mm, T is not.
C11_CJPConversion ==
    CJPReferenceFit =>
        /\ res_cjp # None
        /\ res_cjp[1].T = Plain(Q(-2))
        /\ res_cjp[1].K_S = [c |-> Q(-1), cpi |-> Q(0), u |-> U_HALFPI_MM]

\* the reference coefficients were fitted and converted
C11_Witness ==
    /\ CJPReferenceFit
    /\ pc = "williams"
    /\ res_cjp[1].error = Plain(Q(0))
    /\ res_cjp[1].K_S.u = "sqrt(pi/2)/sqrt(1000)"
    /\ res_cjp[1].K_S.c = Q(-1)

\* the Williams optimizer call of this run() returned
WilliamsSucceeded ==
    \E i \in 1..Len(opt_calls) : opt_calls[i].method = "williams" /\ opt_calls[i].ok

\* the coefficient vector with a_1 = 1, b_1 = 1, a_2 = 1/2 and zero elsewhere
WilliamsReference(terms) ==
    [i \in 1..(2 * Len(terms)) |->
        IF i <= Len(terms)
        THEN (IF terms[i] = 1 THEN Q(1) ELSE IF terms[i] = 2 THEN Norm(1, 2) ELSE Q(0))
        ELSE (IF terms[i - Len(terms)] = 1 THEN Q(1) ELSE Q(0))]

-----------------------------------------------------------------------------
(* The sweep: progress, failures of the configuration, sizes and events *)

\* C13: progress reporting is purely observational.  Whatever the progress
\* argument ('off', None or a sink), the calls of the sweep receive the same
\* extents in the same order, a run() that returns has stored the aggregation
\* of the collected series, only a sink is written to, and no progress
\* argument, an absent sink (None) included, makes run() fail.
C13_ProgressObservational ==
    /\ raised_by # "progress"
    /\ integral_properties # None =>
        /\ \A i \in 1..Len(li_calls) : li_calls[i].args = ExpectedCall(i)
        /\ progress # "sink" => sink = <<>>
        /\ pc = "done" =>
            sifs_int = Some(AggregatedResult(results, williams_int_a_n, williams_int_b_n,
                                             ip.buckner_williams_terms))

\* C14: with number_of_paths <= 0 no path is evaluated and run() never
\* returns: the aggregation of the empty series raises, the exception leaves
\* run() uncaught and sifs_int stays None.
C14_NonPositivePathCount ==
    (integral_properties # None /\ ip.number_of_paths <= 0) =>
        /\ pc # "done"
        /\ li_calls = <<>> /\ results = <<>>
        /\ sifs_int = None
        /\ agg_calls >= 1 => (pc = "raised" /\ raised_by = "aggregate")
        /\ pc = "loop" => ENABLED _aggregate_integral_results

\* a run() with a negative path count ended in its aggregation, and was run again
C14_Witness ==
    /\ integral_properties # None
    /\ ip.number_of_paths = -1
    /\ pc = "raised" /\ raised_by = "aggregate"
    /\ arrays
    /\ agg_calls = 1
    /\ events = <<[type |-> "aggregate", rows |-> 0]>>
    /\ sifs_int = None

\* the aggregation of this run() began with at least one collected path
AggregatedSomePaths == agg_calls >= 1 /\ results # <<>>

\* C15: if order 1 is not among the configured Bueckner-Chen orders, the
\* lookup of its position raises once the statistics are computed, the
\* exception leaves run() uncaught and no aggregated result is stored: run()
\* never returns and sifs_int stays None.
C15_OrderOneMissing ==
    (integral_properties # None /\ 1 \notin Range(ip.buckner_williams_terms)) =>
        /\ pc # "done"
        /\ sifs_int = None
        /\ AggregatedSomePaths =>
            /\ pc = "raised" /\ raised_by = "aggregate"
            /\ ~ENABLED RunContinues

\* all paths of a sweep over the orders <<2>> were evaluated, and the aggregation raised
C15_Witness ==
    /\ integral_properties # None
    /\ ip.buckner_williams_terms = <<2>>
    /\ ip.number_of_paths = 2
    /\ Len(li_calls) = 2 /\ Len(results) = 2
    /\ agg_calls = 1
    /\ pc = "raised" /\ raised_by = "aggregate"
    /\ sifs_int = None

-----------------------------------------------------------------------------
(* The configurations of an orchestrator *)

\* the ensure_defaults calls made on the configuration named c
NormalizationsOf(c) == SelectSeq(normalizations, LAMBDA e : e.config = c)

\* C16: each configuration that is not None is normalized exactly once per
\* orchestrator (the optimization configuration with the crack-tip
\* x-coordinate), a configuration that is None never, and the normalization
\* precedes every optimizer call and every line-integral call; run(), however
\* often it is called, normalizes nothing again.
C16_NormalizedOnce ==
    /\ Len(NormalizationsOf("optimization_properties")) =
            (IF optimization_properties # None THEN 1 ELSE 0)
    /\ Len(NormalizationsOf("integral_properties")) =
            (IF integral_properties # None THEN 1 ELSE 0)
    /\ \A i \in 1..Len(normalizations) :
            normalizations[i].config = "optimization_properties" =>
                normalizations[i].args = <<"crack_tip.crack_tip_x">>
    /\ opt_calls # <<>> => NormalizationsOf("optimization_properties") # <<>>
    /\ li_calls # <<>> => NormalizationsOf("integral_properties") # <<>>

\* a second run() of an orchestrator with both configurations: the Williams
\* coefficients of the first run() are there while the second one is at its CJP fit
C16_Witness ==
    /\ optimization_properties # None /\ integral_properties # None
    /\ pc = "cjp" /\ opt_calls = <<>>
    /\ williams_coeffs # None
    /\ Len(normalizations) = 2
    /\ normalizations[1].config = "optimization_properties"


-----------------------------------------------------------------------------
(* Several orchestrators: which objects each of them refers to *)

MaxInstances == 2  \* number of FractureAnalysis instances constructed

\* how a caller passes a configuration argument of __init__
ConfigArguments == {"omitted", "None", "given"}

CrackTipXs == {1, 2}

\* the default argument values of __init__: the two expressions are evaluated
\* once, when the def statement runs, and the same objects are bound on every
\* call that omits the argument
DefaultIntegralProperties == 1

DefaultOptimizationProperties == 2

NewObject(kind) == [kind |-> kind, calls |-> <<>>]

InitShared ==
    /\ MainOff
    /\ AggOff
    /\ objects = <<NewObject("IntegralProperties"), NewObject("OptimizationProperties")>>
    /\ instances = <<>>
    /\ accumulators = <<>>

\* the objects after the caller has created the ones it passes explicitly
Passed(objs, arg, kind) == IF arg = "given" THEN Append(objs, NewObject(kind)) ELSE objs

\* the object an argument is bound to: None, the default, or the one just created
Bound(objs, arg, default) ==
    IF arg = "None" THEN None
    ELSE IF arg = "omitted" THEN Some(default)
    ELSE Some(Len(objs))

\* ref.ensure_defaults(args) called by instance i: the call reaches the object
ensure_defaults(objs, ref, i, args) ==
    IF ref = None THEN objs
    ELSE [objs EXCEPT ![ref[1]].calls = Append(@, [by |-> i, args |-> args])]

\* FractureAnalysis(material, nodemap, data, crack_tip_info[, ip][, op])
__init__ ==
    /\ pc = "off"
    /\ Len(instances) < MaxInstances
    /\ \E ip_arg \in ConfigArguments, op_arg \in ConfigArguments, x \in CrackTipXs :
        LET i     == Len(instances) + 1
            objs1 == Passed(objects, ip_arg, "IntegralProperties")
            ip_r  == Bound(objs1, ip_arg, DefaultIntegralProperties)
            objs2 == Passed(objs1, op_arg, "OptimizationProperties")
            op_r  == Bound(objs2, op_arg, DefaultOptimizationProperties)
            objs3 == ensure_defaults(objs2, op_r, i, <<x>>)
            objs4 == ensure_defaults(objs3, ip_r, i, <<>>)
        IN  /\ objects' = objs4
            /\ accumulators' = IF ip_r # None THEN Append(accumulators, <<>>)
                               ELSE accumulators
            /\ instances' = Append(instances,
                   [crack_tip_x             |-> x,
                    optimization_properties |-> op_r,
                    integral_properties     |-> ip_r,
                    results |-> IF ip_r # None THEN Some(Len(accumulators) + 1) ELSE None])
    /\ UNCHANGED <<mainvars, aggvars>>

\* one path of a sweep of instance i: self.results.append(...)
AppendPathResult ==
    /\ pc = "off"
    /\ \E i \in 1..Len(instances) :
        /\ instances[i].results # None
        /\ Len(accumulators[instances[i].results[1]]) < MaxPaths
        /\ accumulators' = [accumulators EXCEPT ![instances[i].results[1]] =
                                Append(@, [by |-> i])]
    /\ UNCHANGED <<objects, instances, mainvars, aggvars>>

NextShared ==
    \/ __init__
    \/ AppendPathResult

SpecShared == InitShared /\ [][NextShared]_vars

-----------------------------------------------------------------------------
(* C17 *)

\* the objects instance i refers to as its configuration
ConfigurationsOf(i) ==
    {r[1] : r \in {instances[i].optimization_properties,
                   instances[i].integral_properties} \ {None}}

\* C17: no mutable state is shared between orchestrator instances: for any two
\* instances, the ones constructed with the configuration arguments omitted
\* included, the configuration objects and the result accumulators of one are
\* distinct from those of the other, every normalization a configuration object
\* of an instance has received was made by that instance, and every row of its
\* accumulator was appended by it.
C17_NoSharedState ==
    \A i \in 1..Len(instances) :
        /\ \A j \in 1..Len(instances) : i # j =>
              /\ ConfigurationsOf(i) \cap ConfigurationsOf(j) = {}
              /\ instances[i].results # None => instances[i].results # instances[j].results
        /\ \A o \in ConfigurationsOf(i) :
              \A k \in 1..Len(objects[o].calls) : objects[o].calls[k].by = i
        /\ instances[i].results # None =>
              \A k \in 1..Len(accumulators[instances[i].results[1]]) :
                  accumulators[instances[i].results[1]][k].by = i


-----------------------------------------------------------------------------
(* C18 *)

ConfiguredSizes == {ip.integral_size_left, ip.integral_size_right,
                    ip.integral_size_bottom, ip.integral_size_top}

ConfiguredDistances == {ip.paths_distance_left, ip.paths_distance_right,
                        ip.paths_distance_bottom, ip.paths_distance_top}

\* C18: in the sweep of a configuration with number_of_paths >= 1, positive
\* base sizes and non-negative path distances, each of the four sizes handed
\* to the line-integral service is positive, for every path.
C18_SizesStayPositive ==
    (/\ integral_properties # None
     /\ ip.number_of_paths >= 1
     /\ \A b \in ConfiguredSizes : b > 0
     /\ \A d \in ConfiguredDistances : d >= 0) =>
        \A i \in 1..Len(li_calls) :
            /\ li_calls[i].args.left > 0
            /\ li_calls[i].args.right > 0
            /\ li_calls[i].args.bottom > 0
            /\ li_calls[i].args.top > 0


-----------------------------------------------------------------------------
(* C19 *)

\* the position order 1 has in the configured list of Bueckner-Chen orders
PositionOfOrderOne ==
    CHOOSE k \in 1..Len(ip.buckner_williams_terms) : ip.buckner_williams_terms[k] = 1

\* C19: in each of the three aggregated variants (mean, median, outlier-rejected
\* mean), K_I_Chen is sqrt(2*pi) * a / sqrt(1000) and K_II_Chen is
\* -sqrt(2*pi) * b / sqrt(1000), where a and b are the entries of the same
\* variant's aggregated a_n and b_n vectors at the position order 1 has in the
\* configured order list, wherever in the list it stands.
C19_ChenFromOrderOne ==
    (integral_properties # None /\ sifs_int # None) =>
        \A st \in Statistics :
            LET a == sifs_int[1].williams_int_a_n[st][PositionOfOrderOne]
                b == sifs_int[1].williams_int_b_n[st][PositionOfOrderOne]
            IN  /\ sifs_int[1][st].K_I_Chen = Quantity(a, Q(0), U_TWOPI_MM)
                /\ sifs_int[1][st].K_II_Chen = Quantity(QSub(Q(0), b), Q(0), U_TWOPI_MM)

\* an aggregated result where order 1 stands second in the list, the entries of
\* the two orders differ and the mean differs from the median
C19_Witness ==
    /\ integral_properties # None /\ sifs_int # None
    /\ ip.buckner_williams_terms = <<2, 1>>
    /\ ~IsNaNQuantity(sifs_int[1].mean.K_I_Chen)
    /\ sifs_int[1].mean.K_I_Chen # sifs_int[1].median.K_I_Chen
    /\ sifs_int[1].mean.K_II_Chen # sifs_int[1].median.K_II_Chen
    /\ \A st \in Statistics :
          /\ sifs_int[1].williams_int_a_n[st][1] # sifs_int[1].williams_int_a_n[st][2]
          /\ sifs_int[1].williams_int_b_n[st][1] # sifs_int[1].williams_int_b_n[st][2]


-----------------------------------------------------------------------------
(* C20 *)

\* the events a sweep of n paths with a progress sink is to produce, in order:
\* evaluate(0), notify(1, n), ..., evaluate(n - 1), notify(n, n), aggregate
ExpectedEvents(n, rows) ==
    [i \in 1..(2 * n + 1) |->
        IF i = 2 * n + 1 THEN [type |-> "aggregate", rows |-> rows]
        ELSE IF i % 2 = 1 THEN [type |-> "evaluate", path |-> (i - 1) \div 2]
        ELSE [type |-> "notify", progress |-> i \div 2, total |-> n]]

IsPrefix(s, t) == Len(s) <= Len(t) /\ \A i \in 1..Len(s) : s[i] = t[i]

\* C20: the events of one sweep with a progress sink occur in the order
\* evaluate(path 0), notify(1, n), evaluate(path 1), notify(2, n), ...,
\* evaluate(path n-1), notify(n, n), aggregate: at every moment the events so
\* far are a beginning of that sequence, the sink holds the notifications in
\* that order, the aggregation runs at most once, and a run() that returns has
\* produced the whole sequence, the aggregation having seen the n rows of this
\* sweep after the rows the series held before.
C20_EventOrder ==
    (integral_properties # None /\ progress = "sink" /\ ip.number_of_paths >= 1) =>
        LET n == ip.number_of_paths
            expected == ExpectedEvents(n, rows_at_run + n)
        IN  /\ IsPrefix(events, expected)
            /\ sink = [k \in 1..Len(sink) |-> [progress |-> k, total |-> n]]
            /\ Len(sink) = Len(SelectSeq(events, LAMBDA e : e.type = "notify"))
            /\ agg_calls <= 1
            /\ agg_calls = Len(SelectSeq(events, LAMBDA e : e.type = "aggregate"))
            /\ agg_calls = 1 => (events = expected /\ Len(results) = rows_at_run + n)
            /\ pc = "done" => agg_calls = 1

\* a run() with a sink that returned after MaxPaths paths
C20_Witness ==
    /\ integral_properties # None /\ progress = "sink"
    /\ ip.number_of_paths = MaxPaths
    /\ MaxPaths >= 2
    /\ pc = "done"
    /\ Len(events) = 2 * MaxPaths + 1
    /\ events[2].type = "notify" /\ events[2].progress = 1
    /\ events[2 * MaxPaths].progress = MaxPaths
    /\ events[2 * MaxPaths + 1].type = "aggregate"


-----------------------------------------------------------------------------
(* C21 *)

\* the position order o has in the list of orders (o is in the list)
PositionIn(terms, o) == CHOOSE k \in 1..Len(terms) : terms[k] = o

-----------------------------------------------------------------------------
(* C22 *)

\* v lies between the least and the greatest non-NaN value of the column
WithinValues(col, v) ==
    /\ \E i \in Valid(col) : QLe(col[i], v)
    /\ \E i \in Valid(col) : QLe(v, col[i])

-----------------------------------------------------------------------------
(* C23 *)

\* the per-path series an orchestrator with an integral configuration holds
PathSeries == <<results, williams_int_a_n, williams_int_b_n, williams_int, int_sizes,
                integration_points, num_of_path_nodes, tick_sizes>>

\* C23: after any sequence of run() calls on one orchestrator with an integral
\* configuration, whenever a run() has returned normally every per-path series
\* has exactly number_of_paths entries, none of them from an earlier run(), and
\* the aggregated result is the aggregation of these entries.
C23_SeriesOfOneRun ==
    (integral_properties # None /\ pc = "done") =>
        /\ \A i \in 1..Len(PathSeries) : Len(PathSeries[i]) = ip.number_of_paths
        /\ rows_at_run = 0
        /\ sifs_int = Some(AggregatedResult(results, williams_int_a_n, williams_int_b_n,
                                            ip.buckner_williams_terms))


-----------------------------------------------------------------------------
(* C24 *)

====
